---- MODULE Spec2Model ----
(***************************************************************************)
(* Model of FormAutomation.js: the form-submission workflow of             *)
(* runAutomation (load, validate, fill, select, submit with click retry,   *)
(* navigation wait, thank-you page detection, browser release) and the     *)
(* pure validator validateFormData.                                        *)
(*                                                                         *)
(* Strings are TLA+ strings; Len, SubSeq and \o act on them character by   *)
(* character.  Every awaited call on the page, the browser or the file     *)
(* system is one step that either resolves or rejects; the call is         *)
(* appended to the history variable calls.                                 *)
(***************************************************************************)
EXTENDS Integers, Sequences, FiniteSets, TLC

VARIABLES
    pc,                \* position of the script (see the actions below)
    browser,           \* "none" | "open" | "closed"
    formData,          \* sequence of [selector, value] entries, insertion order
    validationErrors,  \* result of validateFormData (sequence of messages)
    idx,               \* loop index of ensureFormLoaded / fillFormFields
    attempt,           \* loop variable of retryClick
    page,              \* the page in the browser: [url, text, readable]
    currentURL,        \* local of validateThankYouPageContent, "" before page.url()
    pageContent,       \* local of validateThankYouPageContent, "" before the read
    contentRead,       \* TRUE once page.evaluate resolved
    submissionSuccess, \* "none" | "true" | "false": value returned by submitFormAndValidate
    error,             \* message of the error being thrown, "" if none
    calls              \* history of calls: [by, op, target, ok]

vars == <<pc, browser, formData, validationErrors, idx, attempt, page, currentURL,
          pageContent, contentRead, submissionSuccess, error, calls>>

-----------------------------------------------------------------------------
(* Bounds of the model *)

\* longest field value drawn for the validator on its own
MaxLen == 2

-----------------------------------------------------------------------------
(* Configuration (config object) *)

config ==
    [ formUrl      |-> "https://testsite.getjones.com/ExampleForm/",
      selectors    |-> [ name         |-> "#name",
                         email        |-> "#email",
                         phone        |-> "#phone",
                         company      |-> "#company",
                         employees    |-> "#employees",
                         submitButton |-> "button.primary.button" ],
      thankYouPage |-> "thank-you.html",
      thankYouText |-> << "Thank you!", "You'll hear from us soon." >> ]

\* Object.values(config.selectors): property order of the literal
allSelectors ==
    << config.selectors.name, config.selectors.email, config.selectors.phone,
       config.selectors.company, config.selectors.employees,
       config.selectors.submitButton >>

\* default value of retryClick's parameter retries
retries == 3

-----------------------------------------------------------------------------
(* Strings *)

Char(s, i) == SubSeq(s, i, i)

\* String.prototype.includes
Includes(s, t) ==
    \E i \in 0..(Len(s) - Len(t)) : SubSeq(s, i + 1, i + Len(t)) = t

\* characters matched by \s, and the line terminators that . does not match
WhiteSpace == {" ", "\t", "\n", "\r", "\f"}
LineTerminator == {"\n", "\r"}

\* formData[selector], converted to a string as RegExp.prototype.test does:
\* a missing entry reads as undefined, which converts to "undefined"
HasEntry(fd, selector) == \E i \in 1..Len(fd) : fd[i].selector = selector
EntryString(fd, selector) ==
    IF HasEntry(fd, selector)
    THEN fd[CHOOSE i \in 1..Len(fd) : fd[i].selector = selector].value
    ELSE "undefined"

\* /@/.test(s)
emailRegex(s) == \E i \in 1..Len(s) : Char(s, i) = "@"

\* /^(?!\s*$).+/.test(s): no flags, so ^ and $ are the ends of the input and
\* . is any character but a line terminator.  The match starts at index 0:
\* the lookahead refuses an input that is whitespace up to its end, then .+
\* needs at least one character that is not a line terminator at index 0.
nonEmptyRegex(s) ==
    LET restIsWhitespace == \A i \in 1..Len(s) : Char(s, i) \in WhiteSpace
        dotPlus == \E n \in 1..Len(s) :
                       \A i \in 1..n : Char(s, i) \notin LineTerminator
    IN  ~restIsWhitespace /\ dotPlus

NameMsg == "Name cannot be empty."
EmailMsg == "Invalid email format. Email must contain \"@\" character, Please fill out this field."
PhoneMsg == "Phone number cannot be empty, Please fill out this field."
CompanyMsg == "Company name cannot be empty, Please fill out this field."

validateFormData(fd) ==
    LET e1 == IF ~nonEmptyRegex(EntryString(fd, config.selectors.name))
              THEN << NameMsg >> ELSE << >>
        e2 == IF ~emailRegex(EntryString(fd, config.selectors.email))
              THEN << EmailMsg >> ELSE << >>
        e3 == IF ~nonEmptyRegex(EntryString(fd, config.selectors.phone))
              THEN << PhoneMsg >> ELSE << >>
        e4 == IF ~nonEmptyRegex(EntryString(fd, config.selectors.company))
              THEN << CompanyMsg >> ELSE << >>
    IN  e1 \o e2 \o e3 \o e4

-----------------------------------------------------------------------------
(* Inputs *)

Entry(selector, value) == [selector |-> selector, value |-> value]

\* the literal of runAutomation and the FormData of the failure scenarios
FormDataOf(name, email, phone, company) ==
    << Entry(config.selectors.name, name), Entry(config.selectors.email, email),
       Entry(config.selectors.phone, phone), Entry(config.selectors.company, company) >>

RunFormData ==
    { FormDataOf("Eden Oved", "edenoved.swe@gmail.com", "+972 54-324-1555", "Jones Software"),
      FormDataOf("Eden Oved", "no-at-symbol", "+972 54-324-1555", "Jones Software"),
      FormDataOf("   ", "edenoved.swe@gmail.com", "", "Jones Software"),
      FormDataOf("\nEden Oved", "edenoved.swe@gmail.com", "+972 54-324-1555", "Jones Software"),
      FormDataOf(" Eden Oved\n", "@", "0", "Jones\tSoftware") }

\* the page before the submit click
FormPage == [url |-> config.formUrl, text |-> "Request a call back", readable |-> TRUE]

\* URLs the page can be at once the navigation wait is over
PostSubmitURLs ==
    { config.formUrl,
      "https://testsite.getjones.com/ExampleForm/thank-you.html",
      "https://testsite.getjones.com/thank-you.html?ref=form",
      "https://testsite.getjones.com/ExampleForm/thank-you.htm" }

\* texts document.body.innerText can evaluate to
PageTexts ==
    { "",
      "Request a call back",
      "Thank you!",
      "You'll hear from us soon.",
      "Thank you! You'll hear from us soon.",
      "You'll hear from us soon. Thank you!",
      "thank you! you'll hear from us soon." }

\* the pages the navigation can end at; a page that is not readable makes
\* page.evaluate reject (the page was torn down, the body is missing)
PostSubmitPages ==
    [url : PostSubmitURLs, text : PageTexts, readable : {TRUE}]
        \cup [url : PostSubmitURLs, text : {""}, readable : {FALSE}]

-----------------------------------------------------------------------------
(* History of calls *)

\* the function of the script that runs at a position
Owner(position) ==
    CASE position \in {"ensureDirectoryExists"} -> "ensureDirectoryExists"
      [] position \in {"load_body", "load_selector"} -> "ensureFormLoaded"
      [] position \in {"fill_wait", "fill_type"} -> "fillFormFields"
      [] position \in {"before_screenshot", "wait_navigation", "submit_catch"}
            -> "submitFormAndValidate"
      [] position \in {"click_wait", "click"} -> "retryClick"
      [] position \in {"detect_url", "detect_content", "validation_failed_screenshot"}
            -> "validateThankYouPageContent"
      [] OTHER -> "runAutomation"

Call(op, target, ok) == [by |-> Owner(pc), op |-> op, target |-> target, ok |-> ok]
Log(op, target, ok) == calls' = Append(calls, Call(op, target, ok))

Called(op) == \E i \in 1..Len(calls) : calls[i].op = op
CountOf(op) == Cardinality({i \in 1..Len(calls) : calls[i].op = op})
CalledOn(op, target) ==
    \E i \in 1..Len(calls) : calls[i].op = op /\ calls[i].target = target

\* a rejected call: its error travels to the handler at position to
Throws(op, target, to) ==
    /\ Log(op, target, FALSE)
    /\ error' = op \o " failed: " \o target
    /\ pc' = to

-----------------------------------------------------------------------------
(* Initial state: the script has been started, nothing has been awaited *)

Init ==
    /\ pc = "launch"
    /\ browser = "none"
    /\ formData \in RunFormData
    /\ validationErrors = << >>
    /\ idx = 0
    /\ attempt = 0
    /\ page = FormPage
    /\ currentURL = ""
    /\ pageContent = ""
    /\ contentRead = FALSE
    /\ submissionSuccess = "none"
    /\ error = ""
    /\ calls = << >>

-----------------------------------------------------------------------------
(* runAutomation, lines 221-222: outside the try block *)

Launch ==
    /\ pc = "launch"
    /\ \/ /\ Log("launch", "", TRUE)
          /\ browser' = "open"
          /\ pc' = "pages"
          /\ UNCHANGED error
       \/ /\ Throws("launch", "", "rejected")
          /\ UNCHANGED browser
    /\ UNCHANGED <<formData, validationErrors, idx, attempt, page, currentURL,
                   pageContent, contentRead, submissionSuccess>>

Pages ==
    /\ pc = "pages"
    /\ \/ /\ Log("pages", "", TRUE)
          /\ pc' = "goto"
          /\ UNCHANGED error
       \/ Throws("pages", "", "rejected")
    /\ UNCHANGED <<browser, formData, validationErrors, idx, attempt, page, currentURL,
                   pageContent, contentRead, submissionSuccess>>

(* runAutomation, line 225 *)
Goto ==
    /\ pc = "goto"
    /\ \/ /\ Log("goto", config.formUrl, TRUE)
          /\ pc' = "ensureDirectoryExists"
          /\ UNCHANGED error
       \/ Throws("goto", config.formUrl, "catch")
    /\ UNCHANGED <<browser, formData, validationErrors, idx, attempt, page, currentURL,
                   pageContent, contentRead, submissionSuccess>>

(* ensureDirectoryExists: the directory is there, or is made, or an error
   of fs.access other than ENOENT, or of fs.mkdir, is thrown *)
ensureDirectoryExists ==
    /\ pc = "ensureDirectoryExists"
    /\ \/ /\ Log("access", "screenshots", TRUE)
          /\ pc' = "load_body"
          /\ UNCHANGED error
       \/ /\ calls' = calls \o << Call("access", "screenshots", FALSE),
                                  Call("mkdir", "screenshots", TRUE) >>
          /\ pc' = "load_body"
          /\ UNCHANGED error
       \/ /\ calls' = calls \o << Call("access", "screenshots", FALSE),
                                  Call("mkdir", "screenshots", FALSE) >>
          /\ error' = "mkdir failed: screenshots"
          /\ pc' = "catch"
       \/ Throws("access", "screenshots", "catch")
    /\ UNCHANGED <<browser, formData, validationErrors, idx, attempt, page, currentURL,
                   pageContent, contentRead, submissionSuccess>>

-----------------------------------------------------------------------------
(* ensureFormLoaded: its catch block logs and rethrows *)

LoadBody ==
    /\ pc = "load_body"
    /\ \/ /\ Log("waitForSelector", "body", TRUE)
          /\ pc' = "load_selector"
          /\ idx' = 1
          /\ UNCHANGED error
       \/ /\ Throws("waitForSelector", "body", "catch")
          /\ UNCHANGED idx
    /\ UNCHANGED <<browser, formData, validationErrors, attempt, page, currentURL,
                   pageContent, contentRead, submissionSuccess>>

\* LoadSelector with the timeout caught inside the loop: the next locator is
\* waited for
LoadSelectorWithoutThrow ==
    /\ pc = "load_selector"
    /\ \E ok \in BOOLEAN :
          /\ Log("waitForSelector", allSelectors[idx], ok)
          /\ IF idx < Len(allSelectors)
             THEN idx' = idx + 1 /\ pc' = "load_selector"
             ELSE idx' = 0 /\ pc' = "validate"
          /\ UNCHANGED error
    /\ UNCHANGED <<browser, formData, validationErrors, attempt, page, currentURL,
                   pageContent, contentRead, submissionSuccess>>

LoadSelector ==
    /\ pc = "load_selector"
    /\ \/ /\ Log("waitForSelector", allSelectors[idx], TRUE)
          /\ IF idx < Len(allSelectors)
             THEN idx' = idx + 1 /\ pc' = "load_selector"
             ELSE idx' = 0 /\ pc' = "validate"
          /\ UNCHANGED error
       \/ /\ Throws("waitForSelector", allSelectors[idx], "catch")
          /\ UNCHANGED idx
    /\ UNCHANGED <<browser, formData, validationErrors, attempt, page, currentURL,
                   pageContent, contentRead, submissionSuccess>>

-----------------------------------------------------------------------------
(* runAutomation, lines 241-246: validation decides whether the run goes on *)

\* Validate without the early return of line 245
ValidateWithoutReturn ==
    /\ pc = "validate"
    /\ validationErrors' = validateFormData(formData)
    /\ pc' = IF Len(formData) > 0 THEN "fill_wait" ELSE "select"
    /\ idx' = 1
    /\ Log("validateFormData", "formData", Len(validateFormData(formData)) = 0)
    /\ UNCHANGED <<browser, formData, attempt, page, currentURL, pageContent,
                   contentRead, submissionSuccess, error>>

Validate ==
    /\ pc = "validate"
    /\ validationErrors' = validateFormData(formData)
    /\ IF Len(validateFormData(formData)) > 0
       THEN pc' = "stopped" /\ idx' = 0
       ELSE /\ pc' = IF Len(formData) > 0 THEN "fill_wait" ELSE "select"
            /\ idx' = 1
    /\ Log("validateFormData", "formData", Len(validateFormData(formData)) = 0)
    /\ UNCHANGED <<browser, formData, attempt, page, currentURL, pageContent,
                   contentRead, submissionSuccess, error>>

-----------------------------------------------------------------------------
(* fillFormFields: Object.entries in insertion order; the catch block of the
   loop body logs and rethrows *)

\* FillWait with a catch block that logs without the throw of line 104: the
\* loop goes on with the next entry
FillWaitWithoutThrow ==
    /\ pc = "fill_wait"
    /\ \/ /\ Log("waitForSelector", formData[idx].selector, TRUE)
          /\ pc' = "fill_type"
          /\ UNCHANGED <<idx, error>>
       \/ /\ Log("waitForSelector", formData[idx].selector, FALSE)
          /\ IF idx < Len(formData)
             THEN idx' = idx + 1 /\ pc' = "fill_wait"
             ELSE idx' = 0 /\ pc' = "select"
          /\ UNCHANGED error
    /\ UNCHANGED <<browser, formData, validationErrors, attempt, page, currentURL,
                   pageContent, contentRead, submissionSuccess>>

FillWait ==
    /\ pc = "fill_wait"
    /\ \/ /\ Log("waitForSelector", formData[idx].selector, TRUE)
          /\ pc' = "fill_type"
          /\ UNCHANGED error
       \/ Throws("waitForSelector", formData[idx].selector, "catch")
    /\ UNCHANGED <<browser, formData, validationErrors, idx, attempt, page, currentURL,
                   pageContent, contentRead, submissionSuccess>>

\* FillType with a catch block that logs without the throw of line 104
FillTypeWithoutThrow ==
    /\ pc = "fill_type"
    /\ \E ok \in BOOLEAN :
          /\ Log("type", formData[idx].selector, ok)
          /\ IF idx < Len(formData)
             THEN idx' = idx + 1 /\ pc' = "fill_wait"
             ELSE idx' = 0 /\ pc' = "select"
          /\ UNCHANGED error
    /\ UNCHANGED <<browser, formData, validationErrors, attempt, page, currentURL,
                   pageContent, contentRead, submissionSuccess>>

FillType ==
    /\ pc = "fill_type"
    /\ \/ /\ Log("type", formData[idx].selector, TRUE)
          /\ IF idx < Len(formData)
             THEN idx' = idx + 1 /\ pc' = "fill_wait"
             ELSE idx' = 0 /\ pc' = "select"
          /\ UNCHANGED error
       \/ /\ Throws("type", formData[idx].selector, "catch")
          /\ UNCHANGED idx
    /\ UNCHANGED <<browser, formData, validationErrors, attempt, page, currentURL,
                   pageContent, contentRead, submissionSuccess>>

\* Select with its rejection caught and ignored: the submit goes on
SelectWithoutThrow ==
    /\ pc = "select"
    /\ \E ok \in BOOLEAN : Log("select", config.selectors.employees, ok)
    /\ pc' = "before_screenshot"
    /\ UNCHANGED <<browser, formData, validationErrors, idx, attempt, page, currentURL,
                   pageContent, contentRead, submissionSuccess, error>>

(* runAutomation, line 251 *)
Select ==
    /\ pc = "select"
    /\ \/ /\ Log("select", config.selectors.employees, TRUE)
          /\ pc' = "before_screenshot"
          /\ UNCHANGED error
       \/ Throws("select", config.selectors.employees, "catch")
    /\ UNCHANGED <<browser, formData, validationErrors, idx, attempt, page, currentURL,
                   pageContent, contentRead, submissionSuccess>>

-----------------------------------------------------------------------------
(* submitFormAndValidate *)

\* line 137: awaited outside the try block, so a rejection leaves the function
BeforeScreenshot ==
    /\ pc = "before_screenshot"
    /\ \/ /\ Log("screenshot", "before_submission", TRUE)
          /\ pc' = "click_wait"
          /\ attempt' = 1
          /\ UNCHANGED error
       \/ /\ Throws("screenshot", "before_submission", "catch")
          /\ UNCHANGED attempt
    /\ UNCHANGED <<browser, formData, validationErrors, idx, page, currentURL,
                   pageContent, contentRead, submissionSuccess>>

\* AttemptFailed with the last attempt tested as attempt > retries
AttemptFailedOneMore(op) ==
    /\ Log(op, config.selectors.submitButton, FALSE)
    /\ IF attempt > retries
       THEN /\ error' = op \o " failed: " \o config.selectors.submitButton
            /\ pc' = "submit_catch"
            /\ UNCHANGED attempt
       ELSE /\ error' = ""
            /\ pc' = "click_wait"
            /\ attempt' = attempt + 1

\* AttemptFailed of a loop that has lost its bound: every failed attempt is
\* swallowed and followed by another one
AttemptFailedWithoutBound(op) ==
    /\ Log(op, config.selectors.submitButton, FALSE)
    /\ error' = ""
    /\ pc' = "click_wait"
    /\ attempt' = attempt + 1

\* retryClick, lines 171-177: a failed attempt is swallowed unless it is the
\* last one, whose error is thrown to the catch block of submitFormAndValidate
AttemptFailed(op) ==
    /\ Log(op, config.selectors.submitButton, FALSE)
    /\ IF attempt = retries
       THEN /\ error' = op \o " failed: " \o config.selectors.submitButton
            /\ pc' = "submit_catch"
            /\ UNCHANGED attempt
       ELSE /\ error' = ""
            /\ pc' = "click_wait"
            /\ attempt' = attempt + 1

\* retryClick, line 167
ClickWait ==
    /\ pc = "click_wait"
    /\ \/ /\ Log("waitForSelector", config.selectors.submitButton, TRUE)
          /\ pc' = "click"
          /\ UNCHANGED <<attempt, error>>
       \/ AttemptFailed("waitForSelector")
    /\ UNCHANGED <<browser, formData, validationErrors, idx, page, currentURL,
                   pageContent, contentRead, submissionSuccess>>

\* Click without the return of line 170: the loop goes on after a click that
\* resolved
ClickWithoutReturn ==
    /\ pc = "click"
    /\ \/ /\ Log("click", config.selectors.submitButton, TRUE)
          /\ IF attempt = retries
             THEN pc' = "wait_navigation" /\ UNCHANGED attempt
             ELSE pc' = "click_wait" /\ attempt' = attempt + 1
          /\ UNCHANGED error
       \/ AttemptFailed("click")
    /\ UNCHANGED <<browser, formData, validationErrors, idx, page, currentURL,
                   pageContent, contentRead, submissionSuccess>>

\* Click without the navigation wait of line 144: the detector runs at once
ClickWithoutNavigationWait ==
    /\ pc = "click"
    /\ \/ /\ Log("click", config.selectors.submitButton, TRUE)
          /\ pc' = "detect_url"
          /\ UNCHANGED <<attempt, error>>
       \/ AttemptFailed("click")
    /\ UNCHANGED <<browser, formData, validationErrors, idx, page, currentURL,
                   pageContent, contentRead, submissionSuccess>>

\* retryClick, lines 168-170: a click that resolves ends the loop
Click ==
    /\ pc = "click"
    /\ \/ /\ Log("click", config.selectors.submitButton, TRUE)
          /\ pc' = "wait_navigation"
          /\ UNCHANGED <<attempt, error>>
       \/ AttemptFailed("click")
    /\ UNCHANGED <<browser, formData, validationErrors, idx, page, currentURL,
                   pageContent, contentRead, submissionSuccess>>

\* WaitForNavigation awaited outside the try block: no error screenshot
WaitForNavigationOutsideTry ==
    /\ pc = "wait_navigation"
    /\ \/ /\ Log("waitForNavigation", "networkidle0", TRUE)
          /\ page' \in PostSubmitPages
          /\ pc' = "detect_url"
          /\ UNCHANGED error
       \/ /\ Throws("waitForNavigation", "networkidle0", "catch")
          /\ UNCHANGED page
    /\ UNCHANGED <<browser, formData, validationErrors, idx, attempt, currentURL,
                   pageContent, contentRead, submissionSuccess>>

\* line 144
WaitForNavigation ==
    /\ pc = "wait_navigation"
    /\ \/ /\ Log("waitForNavigation", "networkidle0", TRUE)
          /\ page' \in PostSubmitPages
          /\ pc' = "detect_url"
          /\ UNCHANGED error
       \/ /\ Throws("waitForNavigation", "networkidle0", "submit_catch")
          /\ UNCHANGED page
    /\ UNCHANGED <<browser, formData, validationErrors, idx, attempt, currentURL,
                   pageContent, contentRead, submissionSuccess>>

\* SubmitCatch without the throw of line 150: the error is swallowed
SubmitCatchWithoutThrow ==
    /\ pc = "submit_catch"
    /\ \/ /\ Log("screenshot", "submission_error", TRUE)
          /\ pc' = "detect_url"
          /\ error' = ""
       \/ Throws("screenshot", "submission_error", "catch")
    /\ UNCHANGED <<browser, formData, validationErrors, idx, attempt, page, currentURL,
                   pageContent, contentRead, submissionSuccess>>

\* lines 145-151: the screenshot is awaited inside the catch block; when it
\* rejects, its error is the one that leaves the function
SubmitCatch ==
    /\ pc = "submit_catch"
    /\ \/ /\ Log("screenshot", "submission_error", TRUE)
          /\ pc' = "catch"
          /\ UNCHANGED error
       \/ Throws("screenshot", "submission_error", "catch")
    /\ UNCHANGED <<browser, formData, validationErrors, idx, attempt, page, currentURL,
                   pageContent, contentRead, submissionSuccess>>

-----------------------------------------------------------------------------
(* validateThankYouPageContent *)

\* line 190
urlMatches(url) == Includes(url, config.thankYouPage)

\* line 197
contentMatches(text) ==
    \A i \in 1..Len(config.thankYouText) : Includes(text, config.thankYouText[i])

\* DetectUrl without the return of line 192: the text is checked as well
DetectUrlWithoutReturn ==
    /\ pc = "detect_url"
    /\ currentURL' = page.url
    /\ Log("url", page.url, TRUE)
    /\ submissionSuccess' = submissionSuccess
    /\ pc' = "detect_content"
    /\ UNCHANGED <<browser, formData, validationErrors, idx, attempt, page,
                   pageContent, contentRead, error>>

\* lines 188-193
DetectUrl ==
    /\ pc = "detect_url"
    /\ currentURL' = page.url
    /\ Log("url", page.url, TRUE)
    /\ IF urlMatches(page.url)
       THEN submissionSuccess' = "true" /\ pc' = "report"
       ELSE submissionSuccess' = submissionSuccess /\ pc' = "detect_content"
    /\ UNCHANGED <<browser, formData, validationErrors, idx, attempt, page,
                   pageContent, contentRead, error>>

\* DetectContent with a catch block that logs and falls through to line 208
DetectContentCatchFallsThrough ==
    /\ pc = "detect_content"
    /\ IF page.readable
       THEN /\ Log("evaluate", "document.body.innerText", TRUE)
            /\ pageContent' = page.text
            /\ contentRead' = TRUE
            /\ IF contentMatches(page.text)
               THEN submissionSuccess' = "true" /\ pc' = "report"
               ELSE /\ submissionSuccess' = submissionSuccess
                    /\ pc' = "validation_failed_screenshot"
            /\ UNCHANGED error
       ELSE /\ Log("evaluate", "document.body.innerText", FALSE)
            /\ pc' = "validation_failed_screenshot"
            /\ UNCHANGED <<pageContent, contentRead, submissionSuccess, error>>
    /\ UNCHANGED <<browser, formData, validationErrors, idx, attempt, page, currentURL>>

\* lines 195-206
DetectContent ==
    /\ pc = "detect_content"
    /\ IF page.readable
       THEN /\ Log("evaluate", "document.body.innerText", TRUE)
            /\ pageContent' = page.text
            /\ contentRead' = TRUE
            /\ IF contentMatches(page.text)
               THEN submissionSuccess' = "true" /\ pc' = "report"
               ELSE /\ submissionSuccess' = submissionSuccess
                    /\ pc' = "validation_failed_screenshot"
            /\ UNCHANGED error
       ELSE /\ Log("evaluate", "document.body.innerText", FALSE)
            /\ error' = "Page validation encountered an issue, process terminated."
            /\ pc' = "catch"
            /\ UNCHANGED <<pageContent, contentRead, submissionSuccess>>
    /\ UNCHANGED <<browser, formData, validationErrors, idx, attempt, page, currentURL>>

\* lines 208-211
ValidationFailedScreenshot ==
    /\ pc = "validation_failed_screenshot"
    /\ \/ /\ Log("screenshot", "validation_failed", TRUE)
          /\ submissionSuccess' = "false"
          /\ pc' = "report"
          /\ UNCHANGED error
       \/ /\ Throws("screenshot", "validation_failed", "catch")
          /\ UNCHANGED submissionSuccess
    /\ UNCHANGED <<browser, formData, validationErrors, idx, attempt, page, currentURL,
                   pageContent, contentRead>>

-----------------------------------------------------------------------------
(* runAutomation: the end of the try block, the handlers *)

\* lines 254-270: the outcome is logged and the prompt is put up; the
\* function returns while the prompt waits
Report ==
    /\ pc = "report"
    /\ Log("question", submissionSuccess, TRUE)
    /\ pc' = "await_enter"
    /\ UNCHANGED <<browser, formData, validationErrors, idx, attempt, page, currentURL,
                   pageContent, contentRead, submissionSuccess, error>>

\* lines 266-270: the callback of rl.question, run when ENTER is pressed
PressEnter ==
    /\ pc = "await_enter"
    /\ \/ /\ Log("close", "", TRUE)
          /\ browser' = "closed"
          /\ pc' = "done"
          /\ UNCHANGED error
       \/ /\ Throws("close", "", "unhandled")
          /\ UNCHANGED browser
    /\ UNCHANGED <<formData, validationErrors, idx, attempt, page, currentURL,
                   pageContent, contentRead, submissionSuccess>>

\* lines 272-276: catch block of runAutomation
Catch ==
    /\ pc = "catch"
    /\ \/ /\ calls' = calls \o << Call("close", "", TRUE), Call("exit", "1", TRUE) >>
          /\ browser' = "closed"
          /\ pc' = "exited"
          /\ UNCHANGED error
       \/ /\ Throws("close", "", "rejected")
          /\ UNCHANGED browser
    /\ UNCHANGED <<formData, validationErrors, idx, attempt, page, currentURL,
                   pageContent, contentRead, submissionSuccess>>

\* lines 279-283: the handler of the rejected promise reads browser, a name
\* that is local to runAutomation: the handler throws a ReferenceError before
\* anything is closed and the rejection stays unhandled
Rejected ==
    /\ pc = "rejected"
    /\ error' = "browser is not defined"
    /\ pc' = "unhandled"
    /\ UNCHANGED <<browser, formData, validationErrors, idx, attempt, page, currentURL,
                   pageContent, contentRead, submissionSuccess, calls>>

Next ==
    \/ Launch
    \/ Pages
    \/ Goto
    \/ ensureDirectoryExists
    \/ LoadBody
    \/ LoadSelector
    \/ Validate
    \/ FillWait
    \/ FillType
    \/ Select
    \/ BeforeScreenshot
    \/ ClickWait
    \/ Click
    \/ WaitForNavigation
    \/ SubmitCatch
    \/ DetectUrl
    \/ DetectContent
    \/ ValidationFailedScreenshot
    \/ Report
    \/ PressEnter
    \/ Catch
    \/ Rejected

Spec == Init /\ [][Next]_vars

\* the positions at which the script has nothing left to run
Terminated == {"stopped", "done", "exited", "unhandled"}

-----------------------------------------------------------------------------
(* validateFormData on its own: every FormData whose entries are present or
   missing, with values of at most MaxLen characters *)

RECURSIVE StringsUpTo(_, _)
StringsUpTo(alphabet, n) ==
    IF n = 0 THEN {""}
    ELSE LET shorter == StringsUpTo(alphabet, n - 1)
         IN  shorter \cup {s \o c : s \in shorter, c \in alphabet}

\* a letter, a blank that is no line terminator, a line terminator
TextValues == StringsUpTo({"a", " ", "\n"}, MaxLen)
EmailValues == StringsUpTo({"a", "@"}, MaxLen)

\* the entry of a field, or no entry
Entries(selector, values) ==
    {<< >>} \cup {<< Entry(selector, v) >> : v \in values}

InitValidator ==
    /\ pc = "validateFormData"
    /\ browser = "none"
    /\ \E n \in Entries(config.selectors.name, TextValues),
          e \in Entries(config.selectors.email, EmailValues),
          p \in Entries(config.selectors.phone, TextValues),
          c \in Entries(config.selectors.company, TextValues) :
            formData = n \o e \o p \o c
    /\ validationErrors = << >>
    /\ idx = 0
    /\ attempt = 0
    /\ page = FormPage
    /\ currentURL = ""
    /\ pageContent = ""
    /\ contentRead = FALSE
    /\ submissionSuccess = "none"
    /\ error = ""
    /\ calls = << >>

ApplyValidateFormData ==
    /\ pc = "validateFormData"
    /\ validationErrors' = validateFormData(formData)
    /\ pc' = "returned"
    /\ UNCHANGED <<browser, formData, idx, attempt, page, currentURL, pageContent,
                   contentRead, submissionSuccess, error, calls>>

NextValidator == ApplyValidateFormData

SpecValidator == InitValidator /\ [][NextValidator]_vars

-----------------------------------------------------------------------------
(* Reading the history *)

Failed(op, target) ==
    \E i \in 1..Len(calls) :
        calls[i].op = op /\ calls[i].target = target /\ ~calls[i].ok

CalledBy(fn) == \E i \in 1..Len(calls) : calls[i].by = fn

\* the calls of retryClick, in order
RetryClickCalls == SelectSeq(calls, LAMBDA c : c.by = "retryClick")

\* an attempt of retryClick starts with its wait for the button
ClickAttempts ==
    Cardinality({i \in 1..Len(RetryClickCalls) :
                    RetryClickCalls[i].op = "waitForSelector"})
FailedClickAttempts ==
    Cardinality({i \in 1..Len(RetryClickCalls) : ~RetryClickCalls[i].ok})
ClickSucceeded ==
    \E i \in 1..Len(RetryClickCalls) :
        RetryClickCalls[i].op = "click" /\ RetryClickCalls[i].ok

RetryClickFinished == CalledBy("retryClick") /\ pc \notin {"click_wait", "click"}
AllClickAttemptsFailed == RetryClickFinished /\ ~ClickSucceeded

DetectorFinished ==
    /\ Called("url")
    /\ pc \notin {"detect_url", "detect_content", "validation_failed_screenshot"}

\* the positions on the way from a thrown error to the end of the process
FatalPath == {"catch", "exited", "rejected", "unhandled"}

FillOrSubmit == {"type", "select", "click"}

-----------------------------------------------------------------------------
(* C1 *)

\* C1: no page.type, page.select or click happens unless validateFormData
\* returned an empty list before it; when it returns a non-empty list the run
\* stops with no type, select or click call at all.
C1_NoFillUnlessValidated ==
    /\ \A i \in 1..Len(calls) :
          calls[i].op \in FillOrSubmit =>
              /\ \E j \in 1..(i - 1) :
                    calls[j].op = "validateFormData" /\ calls[j].ok
              /\ validationErrors = << >>
    /\ (Called("validateFormData") /\ Len(validationErrors) > 0) =>
          /\ pc = "stopped"
          /\ \A i \in 1..Len(calls) : calls[i].op \notin FillOrSubmit
          /\ ~CalledBy("fillFormFields")
          /\ ~CalledBy("retryClick")

\* the failure scenario: the email without "@" stopped the run after loading
C1_Witness ==
    /\ pc = "stopped"
    /\ validationErrors = << EmailMsg >>
    /\ CalledBy("ensureFormLoaded")

-----------------------------------------------------------------------------
(* C2 *)

\* C2: on every exit of runAutomation from inside its try block (validation
\* stop, fatal error, detected failure, success) browser.close has been called.
C2_BrowserClosedOnEveryExit ==
    (Called("goto") /\ pc \in Terminated) => Called("close")

-----------------------------------------------------------------------------
(* C3 *)

\* C3: retryClick makes at most 3 attempts, each a wait for the button and,
\* when the wait resolves, a click; it returns at the first click that
\* resolves, after exactly k attempts of which k-1 failed, and it throws after
\* exactly 3 failed attempts.
C3_RetryClickAttempts ==
    LET rc == RetryClickCalls
    IN  /\ ClickAttempts <= 3
        /\ \A i \in 1..Len(rc) :
              /\ rc[i].op \in {"waitForSelector", "click"}
              /\ rc[i].op = "click" =>
                    i > 1 /\ rc[i - 1].op = "waitForSelector" /\ rc[i - 1].ok
              /\ (rc[i].op = "waitForSelector" /\ rc[i].ok /\ i < Len(rc)) =>
                    rc[i + 1].op = "click"
              /\ (rc[i].op = "click" /\ rc[i].ok) => i = Len(rc)
        /\ pc \in {"click_wait", "click"} =>
              attempt = FailedClickAttempts + 1
        /\ (RetryClickFinished /\ ClickSucceeded) =>
              /\ ClickAttempts = attempt
              /\ FailedClickAttempts = attempt - 1
              /\ pc = "wait_navigation" \/ Called("waitForNavigation")
        /\ (RetryClickFinished /\ ~ClickSucceeded) =>
              /\ ClickAttempts = 3
              /\ FailedClickAttempts = 3
              /\ pc \in {"submit_catch"} \cup FatalPath

\* the button is not visible twice, then the third attempt clicks
C3_Witness ==
    /\ pc = "wait_navigation"
    /\ RetryClickCalls =
          << [by |-> "retryClick", op |-> "waitForSelector",
              target |-> config.selectors.submitButton, ok |-> FALSE],
             [by |-> "retryClick", op |-> "waitForSelector",
              target |-> config.selectors.submitButton, ok |-> FALSE],
             [by |-> "retryClick", op |-> "waitForSelector",
              target |-> config.selectors.submitButton, ok |-> TRUE],
             [by |-> "retryClick", op |-> "click",
              target |-> config.selectors.submitButton, ok |-> TRUE] >>

-----------------------------------------------------------------------------
(* C4 *)

\* C4: once all 3 click attempts have failed, an error is on its way out of
\* submitFormAndValidate to the catch block of runAutomation, there is no
\* fourth attempt, the navigation wait is not started and the detector is
\* not invoked; the run never reports an outcome.
C4_ClickFailureIsFatal ==
    AllClickAttemptsFailed =>
        /\ pc \in {"submit_catch"} \cup FatalPath
        /\ error # ""
        /\ ClickAttempts = 3
        /\ ~Called("waitForNavigation")
        /\ ~CalledBy("validateThankYouPageContent")
        /\ submissionSuccess = "none"
        /\ ~Called("question")

\* three failed attempts, the last one a click, and the process has exited
C4_Witness ==
    /\ AllClickAttemptsFailed
    /\ Failed("click", config.selectors.submitButton)
    /\ pc = "exited"

-----------------------------------------------------------------------------
(* C5 *)

\* C5: when the URL of the page contains the success fragment the detector
\* returns true whatever the text of the page is, readable or not; it neither
\* reads the text nor takes a screenshot.
C5_UrlMatchShortCircuits ==
    (Called("url") /\ Includes(page.url, "thank-you.html")) =>
        /\ submissionSuccess = "true"
        /\ pc \in {"report", "await_enter", "done", "unhandled"}
        /\ ~Called("evaluate")
        /\ ~contentRead
        /\ pageContent = ""
        /\ ~CalledOn("screenshot", "validation_failed")

\* the URL matches on a page whose content cannot be read
C5_Witness ==
    /\ Called("url")
    /\ Includes(page.url, "thank-you.html")
    /\ ~page.readable
    /\ submissionSuccess = "true"

-----------------------------------------------------------------------------
(* C6 *)

\* C6: when the URL does not contain the success fragment, the detector
\* returns true if and only if every required fragment is in the page text,
\* and it returns false if at least one fragment is missing.
C6_TextDecidesWhenUrlDoesNotMatch ==
    (DetectorFinished /\ ~Includes(currentURL, "thank-you.html") /\ contentRead) =>
        LET allPresent == /\ Includes(pageContent, "Thank you!")
                          /\ Includes(pageContent, "You'll hear from us soon.")
        IN  /\ submissionSuccess = "true" <=> allPresent
            /\ ~allPresent => submissionSuccess = "false"

-----------------------------------------------------------------------------
(* C7 *)

\* C7: when the URL does not match and reading the page content throws, the
\* detector throws its own error: it returns neither true nor false, the run
\* takes the fatal path and no outcome is reported.
C7_ContentReadFailureIsFatal ==
    Failed("evaluate", "document.body.innerText") =>
        /\ ~Includes(currentURL, "thank-you.html")
        /\ submissionSuccess = "none"
        /\ pc \in FatalPath
        /\ pc = "catch" =>
              error = "Page validation encountered an issue, process terminated."
        /\ ~CalledOn("screenshot", "validation_failed")
        /\ ~Called("question")

\* the read failed and the process has exited through the catch block
C7_Witness ==
    /\ Failed("evaluate", "document.body.innerText")
    /\ pc = "exited"

-----------------------------------------------------------------------------
(* C8 *)

\* C8: the before screenshot is attempted before the first click attempt, and
\* when it fails to write the first click attempt is still made.
C8_BeforeScreenshotDoesNotBlockClick ==
    /\ \A i \in 1..Len(calls) :
          calls[i].by = "retryClick" =>
              \E j \in 1..(i - 1) :
                  calls[j].op = "screenshot" /\ calls[j].target = "before_submission"
    /\ (Failed("screenshot", "before_submission") /\ pc \in Terminated) =>
          CalledBy("retryClick")

-----------------------------------------------------------------------------
(* C9 *)

\* C9: when the navigation wait fails after a click that resolved, the error
\* screenshot is the next call, made before an error reaches the catch block
\* of runAutomation; the run takes the fatal path and the detector is not
\* invoked.
C9_NavigationTimeoutIsFatal ==
    \A i \in 1..Len(calls) :
        (calls[i].op = "waitForNavigation" /\ ~calls[i].ok) =>
            /\ i > 1 /\ calls[i - 1].op = "click" /\ calls[i - 1].ok
            /\ pc \in {"submit_catch"} \cup FatalPath
            /\ error # ""
            /\ pc \in FatalPath =>
                  /\ Len(calls) > i
                  /\ calls[i + 1].op = "screenshot"
                  /\ calls[i + 1].target = "submission_error"
            /\ ~CalledBy("validateThankYouPageContent")
            /\ submissionSuccess = "none"
            /\ ~Called("question")

\* the wait timed out, the error screenshot was written, the process exited
C9_Witness ==
    /\ Failed("waitForNavigation", "networkidle0")
    /\ CalledOn("screenshot", "submission_error")
    /\ ~Failed("screenshot", "submission_error")
    /\ pc = "exited"

-----------------------------------------------------------------------------
(* C10 *)

\* s has a character left after trimming whitespace
TrimmedNonEmpty(s) == \E i \in 1..Len(s) : Char(s, i) \notin WhiteSpace

\* C10: validateFormData returns an empty list for every FormData whose name,
\* phone and company are non-empty after trimming and whose email contains
\* "@", a value that starts with a line break included.
C10_ValidDataHasNoErrors ==
    ( /\ pc = "returned"
      /\ \A f \in {"name", "email", "phone", "company"} :
            HasEntry(formData, config.selectors[f])
      /\ \A f \in {"name", "phone", "company"} :
            TrimmedNonEmpty(EntryString(formData, config.selectors[f]))
      /\ Includes(EntryString(formData, config.selectors.email), "@") )
    => validationErrors = << >>

-----------------------------------------------------------------------------
(* C11 *)

\* the field has no entry or its value breaks the rule of the field
BreaksRule(fd, field) ==
    \/ ~HasEntry(fd, config.selectors[field])
    \/ IF field = "email"
       THEN ~Includes(EntryString(fd, config.selectors[field]), "@")
       ELSE ~TrimmedNonEmpty(EntryString(fd, config.selectors[field]))

\* one message for each field that breaks its rule, in the order of the checks
MessagesFor(fd) ==
    (IF BreaksRule(fd, "name") THEN << NameMsg >> ELSE << >>)
        \o (IF BreaksRule(fd, "email") THEN << EmailMsg >> ELSE << >>)
        \o (IF BreaksRule(fd, "phone") THEN << PhoneMsg >> ELSE << >>)
        \o (IF BreaksRule(fd, "company") THEN << CompanyMsg >> ELSE << >>)

\* C11: validateFormData returns exactly one message for every field that is
\* missing or breaks its rule and none for the other fields; the failures
\* accumulate.
C11_OneMessagePerFailingField ==
    pc = "returned" => validationErrors = MessagesFor(formData)

-----------------------------------------------------------------------------
(* C12 *)

\* the failed call at index i is one of the fatal errors of the claim: a wait
\* of ensureFormLoaded, a wait or a type of fillFormFields, the last attempt
\* of retryClick, the navigation wait
FatalErrorAt(i) ==
    /\ ~calls[i].ok
    /\ \/ calls[i].by \in {"ensureFormLoaded", "fillFormFields"}
       \/ calls[i].op = "waitForNavigation"
       \/ /\ calls[i].by = "retryClick"
          /\ Cardinality({j \in 1..i : calls[j].by = "retryClick" /\ ~calls[j].ok}) = 3

ScreenshotAfter(i) ==
    \E j \in (i + 1)..Len(calls) : calls[j].op = "screenshot"

\* C12: every fatal error (element timeout while loading, fill error, click
\* failure after 3 attempts, navigation timeout) is followed by an attempted
\* screenshot before the run aborts, and it takes the run to the catch block.
C12_EveryFatalErrorHasScreenshot ==
    \A i \in 1..Len(calls) :
        FatalErrorAt(i) =>
            /\ pc \in {"submit_catch"} \cup FatalPath
            /\ pc \in FatalPath => ScreenshotAfter(i)

\* C12 as amended: the last failed click attempt and the navigation timeout
\* are followed by the submission_error screenshot before an error reaches
\* the catch block of runAutomation; an element timeout of ensureFormLoaded
\* and a fill error of fillFormFields reach the catch block with no
\* screenshot after them; none of the four is swallowed.
C12_ScreenshotOnSubmitErrorsOnly ==
    \A i \in 1..Len(calls) :
        FatalErrorAt(i) =>
            /\ pc \in {"submit_catch"} \cup FatalPath
            /\ error # ""
            /\ ~Called("question")
            /\ pc \in FatalPath =>
                  IF calls[i].by \in {"ensureFormLoaded", "fillFormFields"}
                  THEN ~ScreenshotAfter(i)
                  ELSE /\ Len(calls) > i
                       /\ calls[i + 1].op = "screenshot"
                       /\ calls[i + 1].target = "submission_error"

\* an element of the form did not become visible while loading, after the
\* screenshots directory was verified, and the process has exited
C12_Witness ==
    /\ \E i \in 1..Len(calls) : calls[i].by = "ensureFormLoaded" /\ ~calls[i].ok
    /\ Called("access")
    /\ ~Called("screenshot")
    /\ pc = "exited"

-----------------------------------------------------------------------------
(* C13 *)

\* C13: when the URL does not match and a required fragment is missing from
\* the text that was read, the detector takes the validation_failed
\* screenshot and returns false; the run reports the failure as a normal
\* outcome: no error is raised by the detector and the catch block of
\* runAutomation is not entered.
C13_MissingTextIsNormalFailure ==
    ( /\ DetectorFinished
      /\ ~Includes(currentURL, "thank-you.html")
      /\ contentRead
      /\ ~( /\ Includes(pageContent, "Thank you!")
            /\ Includes(pageContent, "You'll hear from us soon.") ) )
    => /\ CalledOn("screenshot", "validation_failed")
       /\ submissionSuccess = "false"
       /\ pc \in {"report", "await_enter", "done", "unhandled"}
       /\ pc \in {"report", "await_enter", "done"} => error = ""

-----------------------------------------------------------------------------
(* C14 *)

\* the calls of ensureFormLoaded, in order
LoadCalls == SelectSeq(calls, LAMBDA c : c.by = "ensureFormLoaded")

\* the waits ensureFormLoaded makes when nothing times out
LoadTargets ==
    << "body", "#name", "#email", "#phone", "#company", "#employees",
       "button.primary.button" >>

\* C14: ensureFormLoaded waits for the body and then for each of the six
\* locators, in order and once each; it returns only after all seven waits
\* resolved; the first wait that times out is its last call and aborts the
\* run: no validation, fill, select or submit step follows.
C14_LoadWaitsForEveryLocator ==
    LET lc == LoadCalls
    IN  /\ Len(lc) <= Len(LoadTargets)
        /\ \A i \in 1..Len(lc) :
              /\ lc[i].op = "waitForSelector"
              /\ lc[i].target = LoadTargets[i]
              /\ i < Len(lc) => lc[i].ok
        /\ pc \in {"load_body", "load_selector"} =>
              /\ Len(lc) < Len(LoadTargets)
              /\ \A i \in 1..Len(lc) : lc[i].ok
        /\ ( \/ Called("validateFormData") \/ pc = "validate"
             \/ CalledBy("fillFormFields") \/ Called("select")
             \/ CalledBy("submitFormAndValidate") \/ CalledBy("retryClick") ) =>
              /\ Len(lc) = Len(LoadTargets)
              /\ \A i \in 1..Len(lc) : lc[i].ok
        /\ (Len(lc) > 0 /\ ~lc[Len(lc)].ok) =>
              /\ pc \in FatalPath
              /\ ~Called("validateFormData")
              /\ validationErrors = << >>
              /\ ~CalledBy("fillFormFields")
              /\ ~Called("select")
              /\ ~CalledBy("submitFormAndValidate")
              /\ ~CalledBy("retryClick")

\* the phone field did not become visible: the run was aborted after the
\* waits for the body, the name and the email
C14_Witness ==
    /\ Len(LoadCalls) = 4
    /\ LoadCalls[4].target = "#phone"
    /\ ~LoadCalls[4].ok
    /\ pc = "exited"

-----------------------------------------------------------------------------
(* C15 *)

\* the calls of fillFormFields, in order
FillCalls == SelectSeq(calls, LAMBDA c : c.by = "fillFormFields")

\* C15: fillFormFields takes the entries of formData in their order and for
\* each one waits for the element and then types; the first wait or type that
\* fails is its last call: no later entry is typed, and neither the select,
\* the before screenshot nor a click attempt happens in that run.
C15_FirstFillErrorAborts ==
    LET fc == FillCalls
    IN  /\ Len(fc) <= 2 * Len(formData)
        /\ \A i \in 1..Len(fc) :
              /\ fc[i].target = formData[(i + 1) \div 2].selector
              /\ fc[i].op = IF i % 2 = 1 THEN "waitForSelector" ELSE "type"
              /\ i < Len(fc) => fc[i].ok
        /\ (Called("select") \/ pc = "select") =>
              /\ Len(fc) = 2 * Len(formData)
              /\ \A i \in 1..Len(fc) : fc[i].ok
        /\ (Len(fc) > 0 /\ ~fc[Len(fc)].ok) =>
              /\ pc \in FatalPath
              /\ calls[Len(calls)].op \in {"waitForSelector", "type", "close", "exit"}
              /\ ~Called("select")
              /\ ~Called("screenshot")
              /\ ~CalledBy("submitFormAndValidate")
              /\ ~CalledBy("retryClick")

\* the name was typed, typing the email failed: phone and company were never
\* waited for and the process has exited
C15_Witness ==
    /\ Len(FillCalls) = 4
    /\ FillCalls[2].op = "type" /\ FillCalls[2].target = "#name" /\ FillCalls[2].ok
    /\ FillCalls[4].op = "type" /\ FillCalls[4].target = "#email" /\ ~FillCalls[4].ok
    /\ pc = "exited"

-----------------------------------------------------------------------------
(* C16 *)

\* the workflow state of the run at a position: the run is Idle until the
\* form is loaded, Loaded while the data is validated, Validated while it is
\* typed, Filled at the select, Submitting from the before screenshot to the
\* click, AwaitingNavigation at the navigation wait, Validating in the
\* detector; it ends Succeeded or Failed by the value the detector returned,
\* Failed on a thrown error, Stopped at the return of a failed validation
WorkflowState(position, success) ==
    CASE success = "true" -> "Succeeded"
      [] success = "false" -> "Failed"
      [] position \in {"launch", "pages", "goto", "ensureDirectoryExists",
                       "load_body", "load_selector"} -> "Idle"
      [] position = "validate" -> "Loaded"
      [] position \in {"fill_wait", "fill_type"} -> "Validated"
      [] position = "select" -> "Filled"
      [] position \in {"before_screenshot", "click_wait", "click"} -> "Submitting"
      [] position = "wait_navigation" -> "AwaitingNavigation"
      [] position \in {"detect_url", "detect_content",
                       "validation_failed_screenshot"} -> "Validating"
      [] position = "stopped" -> "Stopped"
      [] OTHER -> "Failed"

WorkflowOrder ==
    << "Idle", "Loaded", "Validated", "Filled", "Submitting",
       "AwaitingNavigation", "Validating" >>

RankOf(state) ==
    IF \E i \in 1..Len(WorkflowOrder) : WorkflowOrder[i] = state
    THEN CHOOSE i \in 1..Len(WorkflowOrder) : WorkflowOrder[i] = state
    ELSE Len(WorkflowOrder) + 1

\* a step keeps the state, or moves to the next state of the order, or ends
\* the run: Succeeded from Validating only, Failed from any state before the
\* end, Stopped from Loaded only; an ended run stays as it ended
WorkflowStep ==
    LET a == WorkflowState(pc, submissionSuccess)
        b == WorkflowState(pc', submissionSuccess')
    IN  \/ b = a
        \/ /\ RankOf(b) <= Len(WorkflowOrder)
           /\ RankOf(b) = RankOf(a) + 1
        \/ a = "Validating" /\ b = "Succeeded"
        \/ RankOf(a) <= Len(WorkflowOrder) /\ b = "Failed"
        \/ a = "Loaded" /\ b = "Stopped"

\* C16: the workflow states are visited in the order Idle, Loaded, Validated,
\* Filled, Submitting, AwaitingNavigation, Validating and then Succeeded or
\* Failed, none skipped on the way and none revisited; a run in which no call
\* failed and whose URL after the submit contains the success fragment ends
\* Succeeded.
C16_StatesInOrder ==
    /\ [][WorkflowStep]_vars
    /\ []( ( /\ \A i \in 1..Len(calls) : calls[i].ok
             /\ Called("url")
             /\ Includes(page.url, "thank-you.html") )
           => WorkflowState(pc, submissionSuccess) = "Succeeded" )

\* the end-to-end scenario: every call resolved, the page is thank-you.html,
\* ENTER was pressed
C16_Witness ==
    /\ pc = "done"
    /\ \A i \in 1..Len(calls) : calls[i].ok
    /\ formData[1].value = "Eden Oved"
    /\ page.url = "https://testsite.getjones.com/ExampleForm/thank-you.html"
    /\ WorkflowState(pc, submissionSuccess) = "Succeeded"

-----------------------------------------------------------------------------
(* C17 *)

\* the workflow has produced its outcome: the validation stop, the outcome
\* reported at the ENTER prompt, or the end of the process after an error
WorkflowEnded == pc \in Terminated \cup {"await_enter"}

\* every step of the script but the ENTER key, which the user may never press
NextOfScript ==
    \/ Launch \/ Pages \/ Goto \/ ensureDirectoryExists \/ LoadBody
    \/ LoadSelector \/ Validate \/ FillWait \/ FillType \/ Select
    \/ BeforeScreenshot \/ ClickWait \/ Click \/ WaitForNavigation
    \/ SubmitCatch \/ DetectUrl \/ DetectContent
    \/ ValidationFailedScreenshot \/ Report \/ Catch \/ Rejected

\* every awaited call settles (it resolves, or it rejects at its timeout) and
\* the event loop then runs the continuation of the script
FairSpec == Init /\ [][Next]_vars /\ WF_vars(NextOfScript)

\* C17: when every wait either completes or times out, every run reaches a
\* terminal outcome; the loops are bounded: retryClick makes at most 3
\* attempts, ensureFormLoaded and fillFormFields make at most one pass over
\* their lists.
C17_RunTerminates ==
    /\ <>WorkflowEnded
    /\ [](/\ ClickAttempts <= 3
          /\ attempt <= 3
          /\ Len(LoadCalls) <= Len(LoadTargets)
          /\ Len(FillCalls) <= 2 * Len(formData))

\* a run that used all three click attempts and then ended
C17_Witness ==
    /\ WorkflowEnded
    /\ ClickAttempts = 3
    /\ pc = "exited"

-----------------------------------------------------------------------------
(* C18 *)

\* the error of the failed click attempt or navigation wait that sent the run
\* to the catch block of submitFormAndValidate
SubmitError ==
    LET failures == {i \in 1..Len(calls) :
                        /\ ~calls[i].ok
                        /\ \/ calls[i].by = "retryClick"
                           \/ calls[i].op = "waitForNavigation"}
        last == CHOOSE i \in failures : \A j \in failures : j <= i
    IN  calls[last].op \o " failed: " \o calls[last].target

\* C18: when the click or the navigation wait failed and the error screenshot
\* failed to write as well, the error that leaves submitFormAndValidate for
\* the catch block of runAutomation is the click or navigation error.
C18_ScreenshotErrorDoesNotReplaceError ==
    (Failed("screenshot", "submission_error") /\ pc = "catch") =>
        error = SubmitError

-----------------------------------------------------------------------------
(* C19 *)

\* indices of the click calls that resolved
SuccessfulClicks ==
    {i \in 1..Len(calls) : calls[i].op = "click" /\ calls[i].ok}

\* C19: at most one click on the submit button resolves in a run; after it no
\* wait for the button and no click follows, whether the navigation wait
\* times out or the detector returns false; a run makes at most 3 attempts.
C19_AtMostOneSuccessfulClick ==
    /\ Cardinality(SuccessfulClicks) <= 1
    /\ ClickAttempts <= 3
    /\ CountOf("click") <= 3
    /\ \A i \in SuccessfulClicks :
          \A j \in (i + 1)..Len(calls) :
              /\ calls[j].by # "retryClick"
              /\ calls[j].op # "click"
              /\ ~(calls[j].op = "waitForSelector"
                     /\ calls[j].target = config.selectors.submitButton)

\* the second attempt clicked, the detector then returned false and the
\* outcome was reported: no further attempt was made
C19_Witness ==
    /\ Cardinality(SuccessfulClicks) = 1
    /\ ClickAttempts = 2
    /\ submissionSuccess = "false"
    /\ pc = "await_enter"

-----------------------------------------------------------------------------
(* C20 *)

FieldSelectors == {"#name", "#email", "#phone", "#company"}

\* C20: the select of the employee count is issued once, after name, email,
\* phone and company were each typed successfully, and before the before
\* screenshot and the first click attempt; when the select fails the run is
\* aborted with no screenshot and no click attempt.
C20_SelectAfterFillBeforeSubmit ==
    /\ CountOf("select") <= 1
    /\ \A s \in 1..Len(calls) :
          calls[s].op = "select" =>
              /\ calls[s].target = "#employees"
              /\ \A f \in FieldSelectors :
                    \E t \in 1..(s - 1) :
                        calls[t].op = "type" /\ calls[t].target = f /\ calls[t].ok
              /\ \A j \in 1..(s - 1) :
                    /\ calls[j].op \notin {"screenshot", "click"}
                    /\ calls[j].by \notin {"submitFormAndValidate", "retryClick"}
              /\ ~calls[s].ok =>
                    /\ pc \in FatalPath
                    /\ ~Called("screenshot")
                    /\ ~Called("click")
                    /\ ~CalledBy("retryClick")
    /\ (Called("screenshot") \/ CalledBy("retryClick")) =>
          \E s \in 1..Len(calls) : calls[s].op = "select" /\ calls[s].ok

\* the four fields were typed, the select failed and the process has exited
C20_Witness ==
    /\ Failed("select", "#employees")
    /\ CountOf("type") = 4
    /\ pc = "exited"

====
